---------------------------- MODULE Spec2Model ----------------------------
(***************************************************************************)
(* A model of queuebot's suggestion lifecycle and voting engine:           *)
(*   src/queuebot/cogs/queue/suggestion.py   class Suggestion              *)
(*   src/queuebot/cogs/queue/__init__.py     class BlobQueue               *)
(*                                                                         *)
(* The bot is a single asyncio event loop.  A handler runs without         *)
(* interruption from one `await` to the next, so every action below is     *)
(* the completion of one awaited operation (a database statement, a        *)
(* Discord call, a confirmation prompt) together with the synchronous code *)
(* that follows it up to the next await.  Handlers interleave at these     *)
(* points only.  A Discord or database call may raise; the exception       *)
(* leaves the handler at once (the `async with` of the voting lock         *)
(* releases the lock on the way out).                                      *)
(*                                                                         *)
(* on_raw_reaction_add / on_raw_reaction_remove pass VoteType.CAST and     *)
(* VoteType.REVOKE, names the enum (YAY, NAY) does not define.  The model  *)
(* follows process_vote, which is written against YAY ('+') and NAY ('-'): *)
(* a reaction added is a YAY event, a reaction removed a NAY event.        *)
(***************************************************************************)
EXTENDS Integers, FiniteSets, Sequences, TLC

\* ------------------------------------------------------------------ bounds

\* Reaction events delivered to the bot over one behaviour of SpecVotes.
MaxVoteEvents == 4

\* Reaction events and commands (approve, deny, revoke) over one behaviour of Spec.
MaxRuns == 3

\* vs commands and reaction events over one behaviour of SpecVs, and the longest
\* list of emoji a vs command is given.
MaxVsRuns == 2
MaxEntries == 7

\* Ranges of the inputs of the pure threshold check (SpecPolicy).
MaxTally == 5
MaxRequiredVotes == 5
MaxRequiredDifference == 3

\* ------------------------------------------------------------- population

\* The suggestions that were admitted to the council queue (idx values).
Admitted == {1}

\* The suggestions that are in the approval queue when vs is run (SpecVs).
Compared == {1, 2}

\* Council members whose reactions are delivered (payload.user_id).
Reviewers == {"alice", "bob"}

\* Reaction-event handlers that may be in flight at once, and the commands.
VoteHandlers == {"reaction1", "reaction2"}
Commands == {"approve", "deny", "revoke"}
Handlers == VoteHandlers \cup Commands

\* Runs of the vs command that may be in flight at once.
VsHandlers == {"vs1", "vs2"}

\* --------------------------------------------------------------- constants

NULL == 0
FREE == "free"

UnknownMsg == -1

\* VoteType and its `operator` property.
VoteType == {"YAY", "NAY"}

VARIABLES
    suggestions,    \* table suggestions: idx -> row
    council_votes,  \* table council_votes: (suggestion_index, user_id) -> row
    emojis,         \* idx of the suggestions whose uploaded emoji exists (bot.get_emoji)
    messages,       \* ids of the messages that exist in the Discord channels
    published,      \* idx -> number of messages sent to the approval queue for it
    voting_lock,    \* BlobQueue.voting_lock: FREE or the handler holding it
    pc,             \* handler -> the await it is suspended at
    rec,            \* handler -> self.record of its Suggestion
    ctx,            \* handler -> its arguments and locals
    ended,          \* the handler run that ended in the last step, and how
    nruns,          \* reaction events delivered and commands issued so far
    config,         \* bot.config: required_votes, required_difference
    pol,            \* a tally and what check_council_votes fires on it (SpecPolicy)
    vs_lock,        \* BlobQueue.vs_lock: FREE or the vs run holding it
    vs,             \* vs run -> the await it is suspended at and its locals
    temp_emotes,    \* the temporary emoji that exist in the buffer guilds
    vs_messages,    \* number of VS messages sent to the approval queue
    precast,        \* history: the last cast tallied, and the tally it found
    dm              \* what became of user.send in the step just taken

vsVars == <<vs_lock, vs, temp_emotes, vs_messages>>

vars == <<suggestions, council_votes, emojis, messages, published, voting_lock,
          pc, rec, ctx, ended, nruns, config, pol, vs_lock, vs, temp_emotes,
          vs_messages, precast, dm>>

\* The rows of table suggestions (idx values).
Subs == DOMAIN suggestions

\* Message ids.  Every message has an id of its own; 0 is no message.
NSubs == Cardinality(Admitted \cup Compared)
CouncilMsg(s) == s
SuggestionMsg(s) == NSubs + s
PublicMsg(s, k) == (k + 1) * NSubs + s

\* ------------------------------------------------------------------- rows

\* A row of `suggestions` right after handle_suggestion_message.
NewRow(s) ==
    [council_approved |-> "NULL", upvotes |-> 0, downvotes |-> 0,
     public_message_id |-> NULL, council_message_id |-> CouncilMsg(s),
     suggestions_message_id |-> SuggestionMsg(s),
     forced_by |-> "NULL", forced_reason |-> "NULL", validation_time |-> "NULL",
     revoked |-> FALSE]

\* No row of council_votes for the pair yet.  `rows` is the number of rows the
\* table holds for the pair; the columns are those of the row last written.
NoVote == [rows |-> 0, has_approved |-> "DEFAULT", has_denied |-> "DEFAULT"]

\* A handler that holds no Suggestion.
NoRecord == [idx |-> NULL]

NoCtx ==
    [approval |-> FALSE, vote_type |-> "YAY", user_id |-> "NULL",
     transition |-> "none", who |-> "NULL", reason |-> "NULL", revoke |-> FALSE,
     msg |-> NULL]

NoPol == [upvotes |-> 0, downvotes |-> 0, fired |-> "unevaluated"]

\* A vs run that is not in flight.
NoVs == [pc |-> "idle"]

\* No cast to remember.
NoCast == [phase |-> "none"]

\* No handler run ended in the last step.
NoEnd == [handler |-> "none", outcome |-> "none"]

\* Suggestion(record): the record and its idx.
Suggestion(s, row) == [idx |-> s, record |-> row]

\* Suggestion.is_in_public_queue
is_in_public_queue(r) == r.record.council_approved = "TRUE"

\* Suggestion.is_denied
is_denied(r) == r.record.council_approved = "FALSE"

\* The lifecycle state a row stands for.
StateOf(row) ==
    CASE row.council_approved = "TRUE" -> "PublicQueue"
      [] row.council_approved = "FALSE" -> "Denied"
      [] OTHER -> "Pending"

\* ------------------------------------------------------ pure parts of the code

\* check_council_votes with strict margins (> where the code has >=).
check_council_votes_StrictMargin(upvotes, downvotes, rv, rd) ==
    IF upvotes + downvotes < rv THEN "none"
    ELSE IF upvotes - downvotes > rd THEN "promote"
    ELSE IF downvotes - upvotes > rd THEN "deny"
    ELSE "none"

\* check_council_votes with its two tests in the other order.
check_council_votes_DenyFirst(upvotes, downvotes, rv, rd) ==
    IF upvotes + downvotes < rv THEN "none"
    ELSE IF downvotes - upvotes >= rd THEN "deny"
    ELSE IF upvotes - downvotes >= rd THEN "promote"
    ELSE "none"

\* Suggestion.check_council_votes: which transition the tally fires.
check_council_votes(upvotes, downvotes, rv, rd) ==
    IF upvotes + downvotes < rv THEN "none"
    ELSE IF upvotes - downvotes >= rd THEN "promote"
    ELSE IF downvotes - upvotes >= rd THEN "deny"
    ELSE "none"

\* process_vote with an operator that is '+' for either vote type.
UpdateTally_AlwaysAdds(row, approval, vote_type) ==
    LET delta == 1
    IN  IF approval
        THEN [row EXCEPT !.upvotes = @ + delta]
        ELSE [row EXCEPT !.downvotes = @ + delta]

\* process_vote: UPDATE suggestions SET {vote_target} = {vote_target} {operator} 1
UpdateTally(row, approval, vote_type) ==
    LET delta == IF vote_type = "YAY" THEN 1 ELSE -1
    IN  IF approval
        THEN [row EXCEPT !.upvotes = @ + delta]
        ELSE [row EXCEPT !.downvotes = @ + delta]

\* process_vote without its early return: every vote goes on to the ledger.
IsPublicVote_Never(r) == FALSE

\* process_vote: votes on a suggestion that has a public message are only tallied.
IsPublicVote(r) == r.record.public_message_id # NULL

\* process_vote with one vote per reviewer: a cast in one direction withdraws the
\* standing vote in the other.
UpsertVote_LastVoteWins(entry, approval, vote_type) ==
    LET v == IF vote_type = "YAY" THEN "TRUE" ELSE "FALSE"
        n == IF entry.rows = 0 THEN 1 ELSE entry.rows
    IN  IF approval
        THEN [entry EXCEPT !.rows = n, !.has_approved = v,
                           !.has_denied = IF v = "TRUE" THEN "FALSE" ELSE @]
        ELSE [entry EXCEPT !.rows = n, !.has_denied = v,
                           !.has_approved = IF v = "TRUE" THEN "FALSE" ELSE @]

\* process_vote with a plain INSERT: every vote adds a row.
UpsertVote_PlainInsert(entry, approval, vote_type) ==
    LET v == IF vote_type = "YAY" THEN "TRUE" ELSE "FALSE"
    IN  IF approval
        THEN [entry EXCEPT !.rows = @ + 1, !.has_approved = v]
        ELSE [entry EXCEPT !.rows = @ + 1, !.has_denied = v]

\* process_vote: INSERT INTO council_votes (suggestion_index, user_id, {column})
\* ... ON CONFLICT (suggestion_index, user_id) DO UPDATE SET {column} = ...:
\* a row is added when the pair has none, the pair's row is updated otherwise.
UpsertVote(entry, approval, vote_type) ==
    LET v == IF vote_type = "YAY" THEN "TRUE" ELSE "FALSE"
        n == IF entry.rows = 0 THEN 1 ELSE entry.rows
    IN  IF approval
        THEN [entry EXCEPT !.rows = n, !.has_approved = v]
        ELSE [entry EXCEPT !.rows = n, !.has_denied = v]

\* Suggestion.reset_votes: UPDATE suggestions SET upvotes = 0, downvotes = 0
reset_votes(row) == [row EXCEPT !.upvotes = 0, !.downvotes = 0]

\* move_to_public_queue up to its first Discord call: the label it goes on at,
\* or the way it ends.
MoveToPublicQueueEntry(r, hasEmoji) ==
    IF is_in_public_queue(r) THEN "OperationError"
    ELSE IF ~hasEmoji THEN "returned"
    ELSE "queue_send"

\* The UPDATE of move_to_public_queue without forced_by and forced_reason.
MoveToPublicQueueUpdate_NoActor(row, msg, who, reason) ==
    [row EXCEPT !.public_message_id = msg, !.council_approved = "TRUE",
                !.validation_time = "utcnow"]

\* move_to_public_queue: the UPDATE that records the move.
MoveToPublicQueueUpdate(row, msg, who, reason) ==
    [row EXCEPT !.public_message_id = msg, !.council_approved = "TRUE",
                !.forced_reason = reason, !.forced_by = who,
                !.validation_time = "utcnow"]

\* deny up to its first UPDATE: the label it goes on at, or the way it ends.
DenyEntry(r, hasEmoji) ==
    IF is_in_public_queue(r) THEN "OperationError"
    ELSE IF is_denied(r) THEN "OperationError"
    ELSE IF ~hasEmoji THEN "RuntimeError"
    ELSE "deny_update"

\* deny: the UPDATE that records the denial.
DenyUpdate(row, who, reason) ==
    [row EXCEPT !.council_approved = "FALSE", !.forced_reason = reason,
                !.forced_by = who, !.validation_time = "utcnow"]

\* deny: UPDATE suggestions SET revoked = TRUE
DenyRevokeUpdate(row) == [row EXCEPT !.revoked = TRUE]

\* get_from_message without `raise cls.NotFound`: a message id that matches no row
\* yields some row all the same.
get_from_message_NeverNotFound(message_id) ==
    LET found == {s \in Subs : suggestions[s].council_message_id = message_id
                               \/ suggestions[s].public_message_id = message_id}
    IN  IF found = {} THEN Subs ELSE found

\* Suggestion.get_from_message: the idx of the rows the message id matches.
get_from_message(message_id) ==
    {s \in Subs : suggestions[s].council_message_id = message_id
                  \/ suggestions[s].public_message_id = message_id}

\* The ways a handler run ends.
Outcomes == {"ok", "returned", "cancelled", "NotFound", "OperationError",
             "RuntimeError", "HTTPException", "PostgresError"}

\* ------------------------------------------------------------------- Init

\* No handler is running, no lock is held, no VS vote was created.
InitHandlers ==
    /\ voting_lock = FREE
    /\ pc = [p \in Handlers |-> "idle"]
    /\ rec = [p \in Handlers |-> NoRecord]
    /\ ctx = [p \in Handlers |-> NoCtx]
    /\ ended = NoEnd
    /\ dm = "none"
    /\ nruns = 0
    /\ vs_lock = FREE
    /\ vs = [h \in VsHandlers |-> NoVs]
    /\ temp_emotes = {}
    /\ vs_messages = 0
    /\ precast = NoCast

\* The admitted suggestions wait in the council queue, nobody has voted.
InitState ==
    /\ suggestions = [s \in Admitted |-> NewRow(s)]
    /\ council_votes = [s \in Admitted |-> [u \in Reviewers |-> NoVote]]
    /\ emojis = Admitted
    /\ messages = {CouncilMsg(s) : s \in Admitted} \cup {SuggestionMsg(s) : s \in Admitted}
    /\ published = [s \in Admitted |-> 0]
    /\ InitHandlers

\* The bot configured to resolve a suggestion on two votes with a margin of two.
Init ==
    /\ InitState
    /\ config = [required_votes |-> 2, required_difference |-> 2]
    /\ pol = NoPol

\* The threshold check on its own: any thresholds and any tally within the bounds.
\* The UPDATE of process_vote has no floor, so a counter may be below zero.
InitPolicy ==
    /\ InitState
    /\ config \in [required_votes : 0..MaxRequiredVotes,
                    required_difference : 1..MaxRequiredDifference]
    /\ pol \in [upvotes : -1..MaxTally, downvotes : -1..MaxTally,
                 fired : {"unevaluated"}]


\* The threshold check under any configured difference, zero and below included.
InitPolicyAny ==
    /\ InitState
    /\ config \in [required_votes : 0..MaxRequiredVotes,
                    required_difference :
                        (0 - MaxRequiredDifference)..MaxRequiredDifference]
    /\ pol \in [upvotes : -1..MaxTally, downvotes : -1..MaxTally,
                 fired : {"unevaluated"}]

\* A row of `suggestions` after the votes moved it to the approval queue:
\* reset_votes, delete_from_council_queue, then the UPDATE of move_to_public_queue
\* without who and reason.
PublicRow(s) ==
    MoveToPublicQueueUpdate(
        [reset_votes(NewRow(s)) EXCEPT !.council_message_id = NULL],
        PublicMsg(s, 1), "NULL", "NULL")

\* The entry of a reviewer whose approve cast is standing.
ApproveVote == UpsertVote(NoVote, TRUE, "YAY")

\* Every suggestion of `Compared` was approved by all reviewers and moved to the
\* approval queue: its emoji, council message and suggestions message are
\* deleted, its public message exists.
InitVs ==
    /\ suggestions = [s \in Compared |-> PublicRow(s)]
    /\ council_votes = [s \in Compared |-> [u \in Reviewers |-> ApproveVote]]
    /\ emojis = {}
    /\ messages = {PublicMsg(s, 1) : s \in Compared}
    /\ published = [s \in Compared |-> 1]
    /\ InitHandlers
    /\ config = [required_votes |-> 2, required_difference |-> 2]
    /\ pol = NoPol

\* ------------------------------------------------------------ handler steps

\* The row of a handler's suggestion as the database holds it now.
Row(p) == suggestions[rec[p].idx]

\* process_vote without update_inplace: the handler keeps the record it read
\* before its UPDATE.
update_inplace_Skipped(p, table) == rec[p]

\* Suggestion.update_inplace: SELECT * FROM suggestions WHERE idx = $1
update_inplace(p, table) == Suggestion(rec[p].idx, table[rec[p].idx])

\* bot.get_emoji(record['emoji_id']) finds the uploaded emoji.
HasEmoji(p) == rec[p].idx \in emojis

\* A handler goes on at `label` holding record r and locals c, or, when `label`
\* is an outcome, ends there: its locals are dropped and the voting lock, if it
\* holds it, is released.
Continue(p, label, r, c) ==
    IF label \in Outcomes
    THEN /\ pc' = [pc EXCEPT ![p] = "idle"]
         /\ rec' = [rec EXCEPT ![p] = NoRecord]
         /\ ctx' = [ctx EXCEPT ![p] = NoCtx]
         /\ ended' = [handler |-> p, outcome |-> label]
         /\ voting_lock' = IF voting_lock = p THEN FREE ELSE voting_lock
    ELSE /\ pc' = [pc EXCEPT ![p] = label]
         /\ rec' = [rec EXCEPT ![p] = r]
         /\ ctx' = [ctx EXCEPT ![p] = c]
         /\ ended' = NoEnd
         /\ UNCHANGED voting_lock

\* What `precast` remembers after a step.  A cast tallied on a Pending suggestion
\* is remembered with the tally it found; the same reviewer's revoke in the same
\* direction, if it is the next change of table suggestions and the suggestion is
\* still Pending, completes a round trip; any other change forgets the cast.
TrackCast ==
    LET tallying == {p \in VoteHandlers :
                        pc[p] = "update_tally" /\ pc'[p] # "update_tally"}
    IN  IF tallying # {}
        THEN LET p == CHOOSE q \in tallying : TRUE
                 pending == StateOf(Row(p)) = "Pending"
             IN  IF pending /\ ctx[p].vote_type = "YAY"
                 THEN [phase |-> "cast", idx |-> rec[p].idx,
                       user_id |-> ctx[p].user_id, approval |-> ctx[p].approval,
                       upvotes |-> Row(p).upvotes, downvotes |-> Row(p).downvotes]
                 ELSE IF /\ pending
                         /\ ctx[p].vote_type = "NAY"
                         /\ precast.phase = "cast"
                         /\ precast.idx = rec[p].idx
                         /\ precast.user_id = ctx[p].user_id
                         /\ precast.approval = ctx[p].approval
                 THEN [precast EXCEPT !.phase = "round_trip"]
                 ELSE NoCast
        ELSE IF suggestions' # suggestions THEN NoCast ELSE precast

\* What a step of a reaction handler or of approve, deny and revoke leaves of
\* the vs runs, and what it makes of the history.
CoreFrame ==
    /\ precast' = TrackCast
    /\ UNCHANGED vsVars

\* The step sends the submitter nothing.
NoNotice == dm' = "none"

\* Entering move_to_public_queue or deny with record r and locals c.
EnterTransition(p, r, c, hasEmoji) ==
    IF c.transition = "promote"
    THEN Continue(p, MoveToPublicQueueEntry(r, hasEmoji), r, c)
    ELSE Continue(p, DenyEntry(r, hasEmoji), r, c)

\* Ids of the messages a reaction event can name: the council message of a
\* suggestion, a message sent to the approval queue, or another message of
\* the two queue channels.
MessageIds ==
    {CouncilMsg(s) : s \in Subs}
    \cup UNION {{PublicMsg(s, k) : k \in 1..published[s]} : s \in Subs}
    \cup {UnknownMsg}

\* on_raw_reaction_add / on_raw_reaction_remove -> process_raw_reaction: an event
\* that counts as a vote arrives and its handler waits for the voting lock.  At
\* most `limit` events arrive over a behaviour.
ReactionEvent(p, limit) ==
    /\ p \in VoteHandlers
    /\ pc[p] = "idle"
    /\ nruns < limit
    /\ pc' = [pc EXCEPT ![p] = "voting_lock"]
    /\ ended' = NoEnd
    /\ nruns' = nruns + 1
    /\ UNCHANGED <<suggestions, council_votes, emojis, messages, published,
                   voting_lock, rec, ctx, config, pol>>
    /\ CoreFrame
    /\ NoNotice

\* process_raw_reaction waiting for vs_lock as well as for the voting lock.
AcquireVotingLock_AfterVs(p, voters) ==
    /\ p \in VoteHandlers
    /\ pc[p] = "voting_lock"
    /\ voting_lock = FREE
    /\ vs_lock = FREE
    /\ \E m \in MessageIds, a \in BOOLEAN, t \in VoteType, u \in voters :
         LET found == get_from_message(m)
         IN  IF found = {}
             THEN /\ pc' = [pc EXCEPT ![p] = "idle"]
                  /\ ended' = [handler |-> p, outcome |-> "NotFound"]
                  /\ UNCHANGED <<voting_lock, rec, ctx>>
             ELSE /\ \E s \in found :
                       rec' = [rec EXCEPT ![p] = Suggestion(s, suggestions[s])]
                  /\ ctx' = [ctx EXCEPT ![p] = [NoCtx EXCEPT !.approval = a,
                                                   !.vote_type = t, !.user_id = u]]
                  /\ pc' = [pc EXCEPT ![p] = "update_tally"]
                  /\ voting_lock' = p
                  /\ ended' = NoEnd
    /\ UNCHANGED <<suggestions, council_votes, emojis, messages, published,
                   nruns, config, pol>>
    /\ CoreFrame
    /\ NoNotice

\* process_raw_reaction without waiting for the voting lock to be free.
AcquireVotingLock_NoWait(p, voters) ==
    /\ p \in VoteHandlers
    /\ pc[p] = "voting_lock"
    /\ \E m \in MessageIds, a \in BOOLEAN, t \in VoteType, u \in voters :
         LET found == get_from_message(m)
         IN  IF found = {}
             THEN /\ pc' = [pc EXCEPT ![p] = "idle"]
                  /\ ended' = [handler |-> p, outcome |-> "NotFound"]
                  /\ UNCHANGED <<voting_lock, rec, ctx>>
             ELSE /\ \E s \in found :
                       rec' = [rec EXCEPT ![p] = Suggestion(s, suggestions[s])]
                  /\ ctx' = [ctx EXCEPT ![p] = [NoCtx EXCEPT !.approval = a,
                                                   !.vote_type = t, !.user_id = u]]
                  /\ pc' = [pc EXCEPT ![p] = "update_tally"]
                  /\ voting_lock' = p
                  /\ ended' = NoEnd
    /\ UNCHANGED <<suggestions, council_votes, emojis, messages, published,
                   nruns, config, pol>>
    /\ CoreFrame
    /\ NoNotice

\* process_raw_reaction: async with self.voting_lock, then get_from_message on the
\* payload's message id; the payload's emoji, vote type and user (one of `voters`)
\* are what process_vote is called with.
AcquireVotingLock(p, voters) ==
    /\ p \in VoteHandlers
    /\ pc[p] = "voting_lock"
    /\ voting_lock = FREE
    /\ \E m \in MessageIds, a \in BOOLEAN, t \in VoteType, u \in voters :
         LET found == get_from_message(m)
         IN  IF found = {}
             THEN /\ pc' = [pc EXCEPT ![p] = "idle"]
                  /\ ended' = [handler |-> p, outcome |-> "NotFound"]
                  /\ UNCHANGED <<voting_lock, rec, ctx>>
             ELSE /\ \E s \in found :
                       rec' = [rec EXCEPT ![p] = Suggestion(s, suggestions[s])]
                  /\ ctx' = [ctx EXCEPT ![p] = [NoCtx EXCEPT !.approval = a,
                                                   !.vote_type = t, !.user_id = u]]
                  /\ pc' = [pc EXCEPT ![p] = "update_tally"]
                  /\ voting_lock' = p
                  /\ ended' = NoEnd
    /\ UNCHANGED <<suggestions, council_votes, emojis, messages, published,
                   nruns, config, pol>>
    /\ CoreFrame
    /\ NoNotice

\* process_vote: the tally UPDATE, update_inplace, and the public-vote return.
ProcessVoteTally(p) ==
    /\ p \in VoteHandlers
    /\ pc[p] = "update_tally"
    /\ LET s == rec[p].idx
           table == [suggestions EXCEPT
                       ![s] = UpdateTally(@, ctx[p].approval, ctx[p].vote_type)]
           r == update_inplace(p, table)
       IN  /\ suggestions' = table
           /\ IF IsPublicVote(r)
              THEN Continue(p, "ok", r, ctx[p])
              ELSE Continue(p, "upsert_vote", r, ctx[p])
    /\ UNCHANGED <<council_votes, emojis, messages, published, nruns, config, pol>>
    /\ CoreFrame
    /\ NoNotice

\* process_vote: the council_votes upsert, then check_council_votes up to the
\* first await of the transition it fires.
ProcessVoteUpsert(p) ==
    /\ p \in VoteHandlers
    /\ pc[p] = "upsert_vote"
    /\ LET s == rec[p].idx
           u == ctx[p].user_id
           fired == check_council_votes(rec[p].record.upvotes, rec[p].record.downvotes,
                                        config.required_votes,
                                        config.required_difference)
       IN  /\ council_votes' = [council_votes EXCEPT
                 ![s][u] = UpsertVote(@, ctx[p].approval, ctx[p].vote_type)]
           /\ CASE fired = "promote" ->
                     Continue(p, "reset_votes", rec[p],
                              [ctx[p] EXCEPT !.transition = "promote"])
                [] fired = "deny" ->
                     EnterTransition(p, rec[p], [ctx[p] EXCEPT !.transition = "deny"],
                                     HasEmoji(p))
                [] OTHER -> Continue(p, "ok", rec[p], ctx[p])
    /\ UNCHANGED <<suggestions, emojis, messages, published, nruns, config, pol>>
    /\ CoreFrame
    /\ NoNotice

\* check_council_votes applied to the tally in `pol` under the thresholds of `config`.
EvaluatePolicy ==
    /\ pol.fired = "unevaluated"
    /\ pol' = [pol EXCEPT !.fired = check_council_votes(pol.upvotes, pol.downvotes,
                                                        config.required_votes,
                                                        config.required_difference)]
    /\ UNCHANGED <<suggestions, council_votes, emojis, messages, published, voting_lock,
                   pc, rec, ctx, ended, nruns, config, vsVars, precast, dm>>

\* check_council_votes: reset_votes, then move_to_public_queue up to its first await.
ResetVotes(p) ==
    /\ p \in VoteHandlers
    /\ pc[p] = "reset_votes"
    /\ LET s == rec[p].idx
           table == [suggestions EXCEPT ![s] = reset_votes(@)]
       IN  /\ suggestions' = table
           /\ EnterTransition(p, update_inplace(p, table), ctx[p], HasEmoji(p))
    /\ UNCHANGED <<council_votes, emojis, messages, published, nruns, config, pol>>
    /\ CoreFrame
    /\ NoNotice

\* move_to_public_queue: changelog.send, queue.send and the two add_reaction calls.
\* Any of them may raise; once queue.send has returned the message exists.
QueueSend(p) ==
    /\ pc[p] = "queue_send"
    /\ LET s == rec[p].idx
           msg == PublicMsg(s, published[s] + 1)
       IN  \/ /\ Continue(p, "HTTPException", rec[p], ctx[p])
              /\ UNCHANGED <<messages, published>>
           \/ /\ published' = [published EXCEPT ![s] = @ + 1]
              /\ messages' = messages \cup {msg}
              /\ \/ Continue(p, "emoji_delete", rec[p], [ctx[p] EXCEPT !.msg = msg])
                 \/ Continue(p, "HTTPException", rec[p], ctx[p])
    /\ UNCHANGED <<suggestions, council_votes, emojis, nruns, config, pol>>
    /\ CoreFrame
    /\ NoNotice

\* move_to_public_queue: emoji.delete(); deny: changelog.send, then emoji.delete().
\* Deleting an emoji that is gone raises NotFound.
EmojiDelete(p) ==
    /\ pc[p] = "emoji_delete"
    /\ \/ /\ Continue(p, "HTTPException", rec[p], ctx[p])
          /\ UNCHANGED emojis
       \/ /\ HasEmoji(p)
          /\ emojis' = emojis \ {rec[p].idx}
          /\ Continue(p, "council_delete", rec[p], ctx[p])
    /\ UNCHANGED <<suggestions, council_votes, messages, published, nruns, config, pol>>
    /\ CoreFrame
    /\ NoNotice

\* Suggestion.delete_from_suggestions_channel: what is left of `msgs`.  The message
\* is deleted, or the failure to delete it is logged and swallowed.
delete_from_suggestions_channel(r, msgs) ==
    LET m == r.record.suggestions_message_id
    IN  IF m = NULL THEN {msgs} ELSE {msgs \ {m}, msgs}

\* user.send without the try/except around it: the HTTPException of a notice that
\* cannot be delivered leaves the transition.
Notify_Raises(p, r, c) ==
    \E user \in BOOLEAN, delivered \in BOOLEAN :
        /\ Continue(p, IF user /\ ~delivered THEN "HTTPException" ELSE "ok", r, c)
        /\ dm' = IF ~user THEN "none" ELSE IF delivered THEN "sent" ELSE "failed"

\* user.send(SUGGESTION_APPROVED / SUGGESTION_DENIED) when the submitter is known to
\* the bot: delivered, or the HTTPException is caught and logged.  Either way the
\* transition returns normally.
Notify(p, r, c) ==
    \E user \in BOOLEAN, delivered \in BOOLEAN :
        /\ Continue(p, "ok", r, c)
        /\ dm' = IF ~user THEN "none" ELSE IF delivered THEN "sent" ELSE "failed"

\* Suggestion.delete_from_council_queue: get_message and delete (either may raise,
\* and does when the message is gone), the UPDATE that clears council_message_id,
\* update_inplace.  Then delete_from_suggestions_channel; after it
\* move_to_public_queue goes on to its UPDATE, and deny to the notice to the
\* submitter (skipped on a revoke) and returns.
delete_from_council_queue(p) ==
    /\ pc[p] = "council_delete"
    /\ LET s == rec[p].idx
           m == rec[p].record.council_message_id
           table == [suggestions EXCEPT ![s].council_message_id = NULL]
           r == update_inplace(p, table)
       IN  \/ /\ Continue(p, "HTTPException", rec[p], ctx[p])
              /\ NoNotice
              /\ UNCHANGED <<suggestions, messages>>
           \/ /\ m # NULL
              /\ m \in messages
              /\ suggestions' = table
              /\ messages' \in delete_from_suggestions_channel(r, messages \ {m})
              /\ IF ctx[p].transition = "promote"
                 THEN Continue(p, "move_update", r, ctx[p]) /\ NoNotice
                 ELSE IF ctx[p].revoke
                      THEN Continue(p, "ok", r, ctx[p]) /\ NoNotice
                      ELSE Notify(p, r, ctx[p])
    /\ UNCHANGED <<council_votes, emojis, published, nruns, config, pol>>
    /\ CoreFrame

\* move_to_public_queue: the UPDATE that records the move, update_inplace, and the
\* notice to the submitter.
MoveUpdate(p) ==
    /\ pc[p] = "move_update"
    /\ LET s == rec[p].idx
           table == [suggestions EXCEPT
                       ![s] = MoveToPublicQueueUpdate(@, ctx[p].msg, ctx[p].who,
                                                      ctx[p].reason)]
       IN  \/ /\ Continue(p, "PostgresError", rec[p], ctx[p])
              /\ NoNotice
              /\ UNCHANGED suggestions
           \/ /\ suggestions' = table
              /\ Notify(p, update_inplace(p, table), ctx[p])
    /\ UNCHANGED <<council_votes, emojis, messages, published, nruns, config, pol>>
    /\ CoreFrame

\* deny: the UPDATE that records the denial; without revoke, update_inplace too.
DenyUpdateRow(p) ==
    /\ pc[p] = "deny_update"
    /\ LET s == rec[p].idx
           table == [suggestions EXCEPT
                       ![s] = DenyUpdate(@, ctx[p].who, ctx[p].reason)]
       IN  \/ /\ Continue(p, "PostgresError", rec[p], ctx[p])
              /\ UNCHANGED suggestions
           \/ /\ suggestions' = table
              /\ IF ctx[p].revoke
                 THEN Continue(p, "deny_revoke", rec[p], ctx[p])
                 ELSE Continue(p, "emoji_delete", update_inplace(p, table), ctx[p])
    /\ UNCHANGED <<council_votes, emojis, messages, published, nruns, config, pol>>
    /\ CoreFrame
    /\ NoNotice

\* deny(revoke=True): the UPDATE that sets revoked, then update_inplace.
DenyRevoke(p) ==
    /\ pc[p] = "deny_revoke"
    /\ LET s == rec[p].idx
           table == [suggestions EXCEPT ![s] = DenyRevokeUpdate(@)]
       IN  /\ suggestions' = table
           /\ Continue(p, "emoji_delete", update_inplace(p, table), ctx[p])
    /\ UNCHANGED <<council_votes, emojis, messages, published, nruns, config, pol>>
    /\ CoreFrame
    /\ NoNotice

\* ---------------------------------------------------------------- commands

\* Suggestion.get_from_id: the argument of approve and deny, read when the
\* command is invoked.
get_from_id(s) == Suggestion(s, suggestions[s])

\* BlobQueue.approve / BlobQueue.deny: the command is invoked on a suggestion and
\* asks for confirmation.
CommandInvoke(p) ==
    /\ p \in {"approve", "deny"}
    /\ pc[p] = "idle"
    /\ nruns < MaxRuns
    /\ \E s \in Subs :
         /\ rec' = [rec EXCEPT ![p] = get_from_id(s)]
         /\ ctx' = [ctx EXCEPT ![p] =
                [NoCtx EXCEPT !.transition = IF p = "approve" THEN "promote" ELSE "deny",
                              !.who = "council", !.reason = "given"]]
    /\ pc' = [pc EXCEPT ![p] = "confirm"]
    /\ ended' = NoEnd
    /\ nruns' = nruns + 1
    /\ UNCHANGED <<suggestions, council_votes, emojis, messages, published,
                   voting_lock, config, pol>>
    /\ CoreFrame
    /\ NoNotice

\* ctx.confirm answers: declined or timed out, the command returns; confirmed, it
\* calls move_to_public_queue / deny on the Suggestion it was given.
CommandConfirm(p) ==
    /\ p \in {"approve", "deny"}
    /\ pc[p] = "confirm"
    /\ \E decision \in BOOLEAN :
         IF decision
         THEN EnterTransition(p, rec[p], ctx[p], HasEmoji(p))
         ELSE Continue(p, "cancelled", rec[p], ctx[p])
    /\ UNCHANGED <<suggestions, council_votes, emojis, messages, published,
                   nruns, config, pol>>
    /\ CoreFrame
    /\ NoNotice

\* BlobQueue.revoke: the submitter's suggestions without a verdict are fetched; with
\* none the command returns, else the wizard waits for the submitter's choice.
RevokeInvoke(p) ==
    /\ p = "revoke"
    /\ pc[p] = "idle"
    /\ nruns < MaxRuns
    /\ LET submissions == {s \in Subs : suggestions[s].council_approved = "NULL"}
       IN  IF submissions = {}
           THEN /\ ended' = [handler |-> p, outcome |-> "ok"]
                /\ UNCHANGED <<pc, rec, ctx>>
           ELSE /\ \E chosen \in submissions :
                     rec' = [rec EXCEPT ![p] = Suggestion(chosen, suggestions[chosen])]
                /\ ctx' = [ctx EXCEPT ![p] =
                       [NoCtx EXCEPT !.transition = "deny", !.who = "submitter",
                                     !.reason = "Manually revoked", !.revoke = TRUE]]
                /\ pc' = [pc EXCEPT ![p] = "wizard"]
                /\ ended' = NoEnd
    /\ nruns' = nruns + 1
    /\ UNCHANGED <<suggestions, council_votes, emojis, messages, published,
                   voting_lock, config, pol>>
    /\ CoreFrame
    /\ NoNotice

\* BlobQueue.revoke: three invalid answers and the wizard gives up; a valid one and
\* it denies the chosen record, as fetched, with revoke=True.
RevokeChoose(p) ==
    /\ p = "revoke"
    /\ pc[p] = "wizard"
    /\ \E valid \in BOOLEAN :
         IF valid
         THEN EnterTransition(p, rec[p], ctx[p], HasEmoji(p))
         ELSE Continue(p, "cancelled", rec[p], ctx[p])
    /\ UNCHANGED <<suggestions, council_votes, emojis, messages, published,
                   nruns, config, pol>>
    /\ CoreFrame
    /\ NoNotice

\* ------------------------------------------------------------ specification

\* The steps of a reaction handler, with at most `limit` events over a behaviour.
VoteStep(p, limit, voters) ==
    \/ ReactionEvent(p, limit)
    \/ AcquireVotingLock(p, voters)
    \/ ProcessVoteTally(p)
    \/ ProcessVoteUpsert(p)
    \/ ResetVotes(p)

\* The steps of move_to_public_queue and deny, whoever called them.
TransitionStep(p) ==
    \/ QueueSend(p)
    \/ EmojiDelete(p)
    \/ delete_from_council_queue(p)
    \/ MoveUpdate(p)
    \/ DenyUpdateRow(p)

\* The steps of the commands.
CommandStep(p) ==
    \/ CommandInvoke(p)
    \/ CommandConfirm(p)
    \/ RevokeInvoke(p)
    \/ RevokeChoose(p)
    \/ DenyRevoke(p)

\* ------------------------------------------------------------------ vs

\* What PublicQueueOrEmojiConverter makes of an argument of vs: a suggestion of the
\* approval queue with its emoji id, or an emoji that is no suggestion.
Entries ==
    {[suggestion |-> s, id |-> s] : s \in Compared}
    \cup {[suggestion |-> NULL, id |-> NSubs + 1]}

\* The argument lists of vs: every list of up to as many entries as there are
\* distinct ones, and one list of each greater length up to MaxEntries (a list
\* longer than the number of distinct entries repeats one of them, and vs looks at
\* nothing but its length and the repetition).
VsTuples ==
    UNION {[1..n -> Entries] : n \in 0..Cardinality(Entries)}
    \cup {[i \in 1..n |-> CHOOSE e \in Entries : e.suggestion = NULL] :
             n \in (Cardinality(Entries) + 1)..MaxEntries}

\* The argument lists the converter accepts: a suggestion it names is a row of the
\* table that is in the approval queue.
Converted ==
    {emoji \in VsTuples :
        \A i \in 1..Len(emoji) :
            emoji[i].suggestion # NULL
              => /\ emoji[i].suggestion \in Subs
                 /\ StateOf(suggestions[emoji[i].suggestion]) = "PublicQueue"}

\* vs without the check of id_set.
VsValidate_NoDuplicateCheck(emoji) ==
    IF Len(emoji) < 2 THEN "too_few"
    ELSE IF Len(emoji) > 6 THEN "too_many"
    ELSE "valid"

\* vs: the checks on the argument list, in the order of the code.
VsValidate(emoji) ==
    IF Len(emoji) < 2 THEN "too_few"
    ELSE IF Len(emoji) > 6 THEN "too_many"
    ELSE IF Cardinality({emoji[i].id : i \in 1..Len(emoji)}) < Len(emoji)
         THEN "duplicate"
    ELSE "valid"

\* vs, the merge loop: the next position after k that holds a suggestion, 0 if none.
NextSuggestion(emoji, k) ==
    LET later == {i \in (k + 1)..Len(emoji) : emoji[i].suggestion # NULL}
    IN  IF later = {} THEN 0 ELSE CHOOSE i \in later : \A j \in later : i <= j

\* What a step of run h of vs leaves alone.
VsFrame ==
    UNCHANGED <<suggestions, council_votes, emojis, published, voting_lock, pc, rec,
                ctx, config, pol, precast, dm>>

\* Run h goes on at `label` with locals l.
VsGoto(h, label, l) ==
    /\ vs' = [vs EXCEPT ![h] = [l EXCEPT !.pc = label]]
    /\ ended' = NoEnd
    /\ UNCHANGED vs_lock

\* vs with acquire() and no release on the way out: the lock stays with the run.
VsEnd_KeepsLock(h, outcome) ==
    /\ vs' = [vs EXCEPT ![h] = NoVs]
    /\ ended' = [handler |-> h, outcome |-> outcome]
    /\ UNCHANGED vs_lock

\* Run h ends: it returned or raised, and `async with self.vs_lock` releases the
\* lock if the run holds it.
VsEnd(h, outcome) ==
    /\ vs' = [vs EXCEPT ![h] = NoVs]
    /\ ended' = [handler |-> h, outcome |-> outcome]
    /\ vs_lock' = IF vs_lock = h THEN FREE ELSE vs_lock

\* vs without the test of vs_lock.locked(): a run goes on whoever holds the lock.
VsInvoke_NoLockCheck(h) ==
    /\ vs[h].pc = "idle"
    /\ nruns < MaxVsRuns
    /\ nruns' = nruns + 1
    /\ \E emoji \in Converted :
         LET subs == {emoji[i].suggestion : i \in 1..Len(emoji)} \ {NULL}
             l == [pc |-> "staging", emoji |-> emoji,
                   record |-> [s \in subs |-> suggestions[s]],
                   k |-> 0, merge_list |-> <<>>]
         IN  IF FALSE
             THEN VsGoto(h, "reply", [pc |-> "reply", reply |-> "refused",
                                      len |-> Len(emoji),
                                      id_set |-> {emoji[i].id : i \in 1..Len(emoji)}])
             ELSE /\ vs_lock' = h
                  /\ ended' = NoEnd
                  /\ vs' = [vs EXCEPT ![h] =
                        IF VsValidate(emoji) = "valid"
                        THEN l
                        ELSE [pc |-> "reply", reply |-> VsValidate(emoji),
                              len |-> Len(emoji),
                              id_set |-> {emoji[i].id : i \in 1..Len(emoji)}]]
    /\ UNCHANGED <<messages, temp_emotes, vs_messages>>
    /\ VsFrame

\* vs is invoked: the converter has read the suggestions; the run is refused when
\* vs_lock is held, else it takes the lock and checks the argument list.  A
\* refusal or a failed check is answered with ctx.send before the run returns.
VsInvoke(h) ==
    /\ vs[h].pc = "idle"
    /\ nruns < MaxVsRuns
    /\ nruns' = nruns + 1
    /\ \E emoji \in Converted :
         LET subs == {emoji[i].suggestion : i \in 1..Len(emoji)} \ {NULL}
             l == [pc |-> "staging", emoji |-> emoji,
                   record |-> [s \in subs |-> suggestions[s]],
                   k |-> 0, merge_list |-> <<>>]
         IN  IF vs_lock # FREE
             THEN VsGoto(h, "reply", [pc |-> "reply", reply |-> "refused",
                                      len |-> Len(emoji),
                                      id_set |-> {emoji[i].id : i \in 1..Len(emoji)}])
             ELSE /\ vs_lock' = h
                  /\ ended' = NoEnd
                  /\ vs' = [vs EXCEPT ![h] =
                        IF VsValidate(emoji) = "valid"
                        THEN l
                        ELSE [pc |-> "reply", reply |-> VsValidate(emoji),
                              len |-> Len(emoji),
                              id_set |-> {emoji[i].id : i \in 1..Len(emoji)}]]
    /\ UNCHANGED <<messages, temp_emotes, vs_messages>>
    /\ VsFrame

\* vs: the ctx.send that answers a refused or invalid invocation, then return.
VsReply(h) ==
    /\ vs[h].pc = "reply"
    /\ \/ VsEnd(h, vs[h].reply)
       \/ VsEnd(h, "HTTPException")
    /\ UNCHANGED <<messages, temp_emotes, vs_messages, nruns>>
    /\ VsFrame

\* vs: get_buffer_guild, the download and create_custom_emoji for the next emoji
\* of the list; any of them may raise.  After the last one the preview is shown.
VsStage(h) ==
    /\ vs[h].pc = "staging"
    /\ LET k == vs[h].k + 1
       IN  \/ /\ VsEnd(h, "HTTPException")
              /\ UNCHANGED temp_emotes
           \/ /\ temp_emotes' = temp_emotes \cup {<<h, k>>}
              /\ IF k = Len(vs[h].emoji)
                 THEN VsGoto(h, "confirm", [vs[h] EXCEPT !.k = 0])
                 ELSE VsGoto(h, "staging", [vs[h] EXCEPT !.k = k])
    /\ UNCHANGED <<messages, vs_messages, nruns>>
    /\ VsFrame

\* vs: ctx.confirm returns; False is a refusal or the timeout.
VsConfirm(h) ==
    /\ vs[h].pc = "confirm"
    /\ \E decision \in BOOLEAN :
         IF decision THEN VsGoto(h, "publish", vs[h]) ELSE VsGoto(h, "discard", vs[h])
    /\ UNCHANGED <<messages, temp_emotes, vs_messages, nruns>>
    /\ VsFrame

\* vs, not confirmed: the next temporary emoji is deleted (the call may raise);
\* after the last one the run returns.
VsDiscard(h) ==
    /\ vs[h].pc = "discard"
    /\ LET k == vs[h].k + 1
       IN  \/ /\ VsEnd(h, "HTTPException")
              /\ UNCHANGED temp_emotes
           \/ /\ temp_emotes' = temp_emotes \ {<<h, k>>}
              /\ IF k = Len(vs[h].emoji)
                 THEN VsEnd(h, "cancelled")
                 ELSE VsGoto(h, "discard", [vs[h] EXCEPT !.k = k])
    /\ UNCHANGED <<messages, vs_messages, nruns>>
    /\ VsFrame

\* vs, confirmed: the VS message is sent to the approval queue.
VsPublish(h) ==
    /\ vs[h].pc = "publish"
    /\ \/ /\ VsEnd(h, "HTTPException")
          /\ UNCHANGED vs_messages
       \/ /\ vs_messages' = vs_messages + 1
          /\ VsGoto(h, "react", vs[h])
    /\ UNCHANGED <<messages, temp_emotes, nruns>>
    /\ VsFrame

\* vs: add_reaction for the next emoji and the deletion of its temporary emoji
\* (either may raise).  After the last one the merge loop starts; it skips the
\* entries that are no suggestion.
VsReact(h) ==
    /\ vs[h].pc = "react"
    /\ LET k == vs[h].k + 1
       IN  \/ /\ VsEnd(h, "HTTPException")
              /\ UNCHANGED temp_emotes
           \/ /\ temp_emotes' = temp_emotes \ {<<h, k>>}
              /\ IF k < Len(vs[h].emoji)
                 THEN VsGoto(h, "react", [vs[h] EXCEPT !.k = k])
                 ELSE IF NextSuggestion(vs[h].emoji, 0) = 0
                 THEN VsGoto(h, "report", vs[h])
                 ELSE VsGoto(h, "merge", [vs[h] EXCEPT !.k = 0])
    /\ UNCHANGED <<messages, vs_messages, nruns>>
    /\ VsFrame

\* Suggestion.remove_from_public_queue of record row: the messages that exist after
\* it returned normally.  A message that is gone (NotFound) is passed over.
remove_from_public_queue(row, msgs) == msgs \ {row["public_message_id"]}

\* vs, the merge loop for the next suggestion of the list: its line of the report
\* is written from the record the converter read, then remove_from_public_queue
\* (get_message or delete may raise).
VsMerge(h) ==
    /\ vs[h].pc = "merge"
    /\ LET i == NextSuggestion(vs[h].emoji, vs[h].k)
           s == vs[h].emoji[i].suggestion
           row == vs[h].record[s]
           line == [idx |-> s, upvotes |-> row.upvotes, downvotes |-> row.downvotes]
           l == [vs[h] EXCEPT !.k = i, !.merge_list = Append(@, line)]
       IN  \/ /\ VsEnd(h, "HTTPException")
              /\ UNCHANGED messages
           \/ /\ messages' = remove_from_public_queue(row, messages)
              /\ IF NextSuggestion(vs[h].emoji, i) = 0
                 THEN VsGoto(h, "report", l)
                 ELSE VsGoto(h, "merge", l)
    /\ UNCHANGED <<temp_emotes, vs_messages, nruns>>
    /\ VsFrame

\* vs: the report is sent, then asyncio.sleep(5) with the lock still held.
VsReport(h) ==
    /\ vs[h].pc = "report"
    /\ \/ VsEnd(h, "HTTPException")
       \/ VsGoto(h, "sleep", vs[h])
    /\ UNCHANGED <<messages, temp_emotes, vs_messages, nruns>>
    /\ VsFrame

\* vs: the sleep is over, the run returns and the lock is released.
VsSleep(h) ==
    /\ vs[h].pc = "sleep"
    /\ VsEnd(h, "ok")
    /\ UNCHANGED <<messages, temp_emotes, vs_messages, nruns>>
    /\ VsFrame

\* One reaction handler fed by one council member, and the three commands,
\* interleaved at every await.
Next ==
    \/ \E p \in {"reaction1"} : VoteStep(p, MaxRuns, {"alice"})
    \/ \E p \in {"reaction1"} \cup Commands : TransitionStep(p)
    \/ \E p \in Commands : CommandStep(p)

\* The reaction handlers alone, fed by every council member.
NextVotes ==
    \/ \E p \in VoteHandlers : VoteStep(p, MaxVoteEvents, Reviewers)
    \/ \E p \in VoteHandlers : TransitionStep(p)

\* A reaction event on a message of the approval queue: process_vote returns after
\* the tally.
PublicVoteStep(p, limit, voters) ==
    \/ ReactionEvent(p, limit)
    \/ AcquireVotingLock(p, voters)
    \/ ProcessVoteTally(p)

VsStep(h) ==
    \/ VsInvoke(h)
    \/ VsReply(h)
    \/ VsStage(h)
    \/ VsConfirm(h)
    \/ VsDiscard(h)
    \/ VsPublish(h)
    \/ VsReact(h)
    \/ VsMerge(h)
    \/ VsReport(h)
    \/ VsSleep(h)

\* Runs of vs on the suggestions of the approval queue, interleaved with the
\* votes of one council member on them.
NextVs ==
    \/ \E h \in VsHandlers : VsStep(h)
    \/ \E p \in {"reaction1"} : PublicVoteStep(p, MaxVsRuns, {"alice"})

\* A suggestion in the council queue that one vote resolves, next to one in the
\* approval queue.
InitLocks ==
    /\ suggestions = [s \in Compared |-> IF s \in Admitted THEN NewRow(s)
                                         ELSE PublicRow(s)]
    /\ council_votes = [s \in Compared |->
                          [u \in Reviewers |-> IF s \in Admitted THEN NoVote
                                               ELSE ApproveVote]]
    /\ emojis = Admitted
    /\ messages = {CouncilMsg(s) : s \in Admitted}
                    \cup {SuggestionMsg(s) : s \in Admitted}
                    \cup {PublicMsg(s, 1) : s \in Compared \ Admitted}
    /\ published = [s \in Compared |-> IF s \in Admitted THEN 0 ELSE 1]
    /\ InitHandlers
    /\ config = [required_votes |-> 1, required_difference |-> 1]
    /\ pol = NoPol

\* Runs of vs, one at a time, interleaved with the votes of one council member, on
\* the council message or on a public one, and the transitions they fire.
NextLocks ==
    \/ \E h \in {"vs1"} : VsStep(h)
    \/ \E p \in {"reaction1"} : VoteStep(p, MaxVsRuns, {"alice"})
    \/ \E p \in {"reaction1"} : TransitionStep(p)

\* Every await returns or raises in the end: a Discord or database call answers,
\* ctx.confirm times out, asyncio.sleep(5) ends, and a free lock is handed to a
\* handler that waits for it.
FairLocks ==
    /\ \A h \in {"vs1"} : WF_vars(VsStep(h))
    /\ \A p \in {"reaction1"} :
         WF_vars(VoteStep(p, MaxVsRuns, {"alice"}) \/ TransitionStep(p))

Spec == Init /\ [][Next]_vars

SpecLocks == InitLocks /\ [][NextLocks]_vars /\ FairLocks

SpecVs == InitVs /\ [][NextVs]_vars

SpecVotes == Init /\ [][NextVotes]_vars

SpecPolicy == InitPolicy /\ [][EvaluatePolicy]_vars

SpecPolicyAny == InitPolicyAny /\ [][EvaluatePolicy]_vars

\* ------------------------------------------------------------------ claims

\* Handler p takes its step from label l.
StepsFrom(p, l) == pc[p] = l /\ pc'[p] # l

\* Handler p, suspended at label l, calls move_to_public_queue or deny in this step
\* (the prompt or the wizard was answered, and not by a refusal).
Calls(p, l) == StepsFrom(p, l) /\ ended'.outcome # "cancelled"

\* The column a vote counts in, before and after a step.
Counter(row, approval) == IF approval THEN row.upvotes ELSE row.downvotes

\* C1. Monotonicity: once a suggestion is in the public queue or denied, no step of
\* any handler changes its state.
C1_Monotonicity ==
    [][\A s \in Subs :
         StateOf(suggestions[s]) # "Pending"
         => StateOf(suggestions'[s]) = StateOf(suggestions[s])]_vars

\* C2. Cast idempotence: a cast by a reviewer whose ledger entry already holds a
\* standing cast in that direction on a Pending suggestion leaves the counter as
\* it is (two casts in a row count once).
C2_CastIdempotent ==
    [][\A p \in VoteHandlers :
         (/\ StepsFrom(p, "update_tally")
          /\ ctx[p].vote_type = "YAY"
          /\ StateOf(Row(p)) = "Pending"
          /\ LET e == council_votes[rec[p].idx][ctx[p].user_id]
             IN  IF ctx[p].approval THEN e.has_approved = "TRUE"
                                    ELSE e.has_denied = "TRUE")
         => Counter(suggestions'[rec[p].idx], ctx[p].approval)
              = Counter(Row(p), ctx[p].approval)]_vars

\* C3. Tally non-negativity: upvotes >= 0 and downvotes >= 0 for every suggestion.
C3_TallyNonNegative ==
    \A s \in Subs : suggestions[s].upvotes >= 0 /\ suggestions[s].downvotes >= 0

\* C4. Threshold correctness: nothing fires below required_votes; with enough votes
\* promote fires on a margin of required_difference for, deny on that margin
\* against, nothing in between; and the four tallies of the spec under thresholds
\* 5 and 3 fire nothing, promote, deny, nothing.
C4_ThresholdCorrect ==
    /\ pol.fired # "unevaluated" =>
         LET total == pol.upvotes + pol.downvotes
             margin == pol.upvotes - pol.downvotes
             enough == total >= config.required_votes
         IN  /\ ~enough => pol.fired = "none"
             /\ enough /\ margin >= config.required_difference => pol.fired = "promote"
             /\ enough /\ 0 - margin >= config.required_difference => pol.fired = "deny"
             /\ (/\ enough
                 /\ margin < config.required_difference
                 /\ 0 - margin < config.required_difference) => pol.fired = "none"
    /\ check_council_votes(4, 0, 5, 3) = "none"
    /\ check_council_votes(4, 1, 5, 3) = "promote"
    /\ check_council_votes(1, 4, 5, 3) = "deny"
    /\ check_council_votes(3, 3, 5, 3) = "none"

\* C4 witness: tally (4,1) under thresholds 5 and 3 was evaluated and fired promote.
C4_Witness ==
    /\ pol = [upvotes |-> 4, downvotes |-> 1, fired |-> "promote"]
    /\ config = [required_votes |-> 5, required_difference |-> 3]

\* C5. Promotion resets tally: the step that puts a suggestion in the public queue
\* leaves it with upvotes = 0 and downvotes = 0.
C5_PromotionResetsTally ==
    [][\A s \in Subs :
         (StateOf(suggestions[s]) # "PublicQueue"
          /\ StateOf(suggestions'[s]) = "PublicQueue")
         => suggestions'[s].upvotes = 0 /\ suggestions'[s].downvotes = 0]_vars

\* C6. Transition atomicity: a policy-driven promote, which resets the tally, never
\* ends (returns or raises) with the suggestion still Pending.
C6_PromoteAtomic ==
    [][\A p \in VoteHandlers :
         (/\ ctx[p].transition = "promote"
          /\ pc[p] # "idle"
          /\ pc'[p] = "idle")
         => StateOf(suggestions'[rec[p].idx]) # "Pending"]_vars

\* C7. promote precondition: move_to_public_queue called by the approve command on a
\* suggestion that is not Pending raises OperationError and changes nothing of it.
C7_PromotePrecondition ==
    [][(Calls("approve", "confirm") /\ StateOf(Row("approve")) # "Pending")
         => /\ ended' = [handler |-> "approve", outcome |-> "OperationError"]
            /\ suggestions' = suggestions]_vars

\* C8. deny precondition: deny called by the deny command or the revoke wizard on a
\* suggestion that is in the public queue or denied raises OperationError and
\* changes nothing of it.
C8_DenyPrecondition ==
    [][\A p \in {"deny", "revoke"} :
         ((Calls(p, "confirm") \/ Calls(p, "wizard")) /\ StateOf(Row(p)) # "Pending")
         => /\ ended' = [handler |-> p, outcome |-> "OperationError"]
            /\ suggestions' = suggestions]_vars

\* C9. Late votes: a vote on a suggestion that has left Pending adjusts the counter
\* by one and the handler returns there, without check_council_votes; and no vote
\* handler goes from the policy into promote or deny on such a suggestion.
C9_LateVotesSkipPolicy ==
    [][\A p \in VoteHandlers :
         /\ (StepsFrom(p, "update_tally") /\ StateOf(Row(p)) # "Pending")
            => /\ Counter(suggestions'[rec[p].idx], ctx[p].approval)
                    = Counter(Row(p), ctx[p].approval)
                        + (IF ctx[p].vote_type = "YAY" THEN 1 ELSE -1)
               /\ ended' = [handler |-> p, outcome |-> "ok"]
         /\ (StepsFrom(p, "upsert_vote") /\ StateOf(Row(p)) # "Pending")
            => pc'[p] = "idle"]_vars

\* C10 as stated. Ledger writes after resolution: a vote on a suggestion that has
\* left Pending goes on to the council_votes upsert.
C10_LateVotesWriteLedger ==
    [][\A p \in VoteHandlers :
         (StepsFrom(p, "update_tally") /\ StateOf(Row(p)) # "Pending")
         => pc'[p] = "upsert_vote"]_vars

\* C10 as amended. A vote on a suggestion that has left Pending adjusts the counter by
\* one; if the suggestion has a public message the handler returns there and
\* council_votes is not written, otherwise (a denied suggestion whose council
\* message is still known) it goes on to the upsert, which stores the vote in the
\* reviewer's entry.
C10_PublicVotesOnlyTallied ==
    [][\A p \in VoteHandlers :
         LET s == rec[p].idx
             u == ctx[p].user_id
             v == IF ctx[p].vote_type = "YAY" THEN "TRUE" ELSE "FALSE"
         IN  /\ (StepsFrom(p, "update_tally") /\ StateOf(Row(p)) # "Pending")
                => /\ Counter(suggestions'[s], ctx[p].approval)
                        = Counter(Row(p), ctx[p].approval)
                            + (IF ctx[p].vote_type = "YAY" THEN 1 ELSE -1)
                   /\ IF Row(p).public_message_id # NULL
                      THEN /\ ended' = [handler |-> p, outcome |-> "ok"]
                           /\ council_votes' = council_votes
                      ELSE pc'[p] = "upsert_vote"
             /\ StepsFrom(p, "upsert_vote")
                => /\ council_votes'[s][u].rows >= 1
                   /\ IF ctx[p].approval
                      THEN council_votes'[s][u].has_approved = v
                      ELSE council_votes'[s][u].has_denied = v]_vars

\* C10 witness: a suggestion promoted by the votes (tally reset, nobody forced it)
\* has since received a deny cast on its public message: the cast is in the tally,
\* the handler has returned, and no entry of council_votes records a denial.
C10_Witness ==
    \E s \in Subs :
        /\ StateOf(suggestions[s]) = "PublicQueue"
        /\ suggestions[s].forced_by = "NULL"
        /\ suggestions[s].upvotes = 0
        /\ suggestions[s].downvotes = 1
        /\ ended = [handler |-> "reaction1", outcome |-> "ok"]
        /\ \A u \in Reviewers : council_votes[s][u].has_denied = "DEFAULT"

\* Reviewers whose council_votes entry holds a standing approve / deny for s.
StandingApprovals(s) == {u \in Reviewers : council_votes[s][u].has_approved = "TRUE"}
StandingDenials(s) == {u \in Reviewers : council_votes[s][u].has_denied = "TRUE"}

\* C11. Tally is ledger-derived: whenever no vote is in progress, every Pending
\* suggestion has upvotes equal to the number of reviewers with a standing approve
\* and downvotes equal to the number with a standing deny.
C11_TallyLedgerDerived ==
    (\A p \in VoteHandlers : pc[p] = "idle")
    => \A s \in Subs :
         StateOf(suggestions[s]) = "Pending"
         => /\ suggestions[s].upvotes = Cardinality(StandingApprovals(s))
            /\ suggestions[s].downvotes = Cardinality(StandingDenials(s))

\* C12. Ledger uniqueness: council_votes holds at most one row per
\* (suggestion_index, user_id), whatever casts and revokes were processed, and a
\* pair without a row has no column written.
C12_LedgerUnique ==
    \A s \in Subs, u \in Reviewers :
        /\ council_votes[s][u].rows <= 1
        /\ council_votes[s][u].rows = 0
           => /\ council_votes[s][u].has_approved = "DEFAULT"
              /\ council_votes[s][u].has_denied = "DEFAULT"

\* C12 witness: two votes of one reviewer on one suggestion, an approve cast and a
\* deny revoke, were written and the pair has one row.
C12_Witness ==
    \E s \in Subs, u \in Reviewers :
        /\ council_votes[s][u].rows = 1
        /\ council_votes[s][u].has_approved = "TRUE"
        /\ council_votes[s][u].has_denied = "FALSE"

\* C13. Cast/revoke round trip: after a cast on a Pending suggestion and the same
\* reviewer's revoke in the same direction, with no other change of the suggestion
\* in between, upvotes and downvotes are what they were before the cast.
C13_CastRevokeRoundTrip ==
    precast.phase = "round_trip"
    => /\ suggestions[precast.idx].upvotes = precast.upvotes
       /\ suggestions[precast.idx].downvotes = precast.downvotes

\* C13 witness: an approve cast that found the tally (0,1) was revoked, and the
\* suggestion is still Pending.
C13_Witness ==
    /\ precast.phase = "round_trip"
    /\ precast.approval
    /\ precast.upvotes = 0
    /\ precast.downvotes = 1
    /\ StateOf(suggestions[precast.idx]) = "Pending"

\* Run h of vs takes a step / ends in this step.
VsSteps(h) == vs'[h] # vs[h]
VsEnds(h) == vs[h].pc # "idle" /\ vs'[h].pc = "idle"

\* The temporary emoji run h created that still exist.
TempEmotesOf(h, temps) == {e \in temps : e[1] = h}

\* C14. Comparison rejection leaves no trace: the steps of a vs run that was not
\* confirmed change no row of suggestions, delete no message and send no VS
\* message, and when the run ends every temporary emoji it created is deleted
\* and vs_lock is free.
C14_RejectionLeavesNoTrace ==
    [][\A h \in VsHandlers :
         (vs[h].pc = "discard" /\ VsSteps(h))
         => /\ suggestions' = suggestions
            /\ messages' = messages
            /\ vs_messages' = vs_messages
            /\ VsEnds(h) => /\ TempEmotesOf(h, temp_emotes') = {}
                            /\ vs_lock' = FREE]_vars

\* The VS message of run h is in the approval queue.
VsPublished(h) == vs[h].pc \in {"react", "merge", "report", "sleep"}

\* C15. Comparison confirmation: a vs run sends a VS message only once, on
\* confirmation, and when a run that sent its VS message ends, the public message
\* of every suggestion of its list is deleted (none is left in the approval queue).
C15_ConfirmationRetiresAll ==
    [][\A h \in VsHandlers :
         /\ (VsSteps(h) /\ vs_messages' # vs_messages)
            => vs[h].pc = "publish" /\ vs_messages' = vs_messages + 1
         /\ (VsPublished(h) /\ VsEnds(h))
            => \A i \in 1..Len(vs[h].emoji) :
                 vs[h].emoji[i].suggestion # NULL
                 => suggestions'[vs[h].emoji[i].suggestion].public_message_id
                      \notin messages']_vars

\* C16. withdraw_from_public effect: after remove_from_public_queue returned for a
\* suggestion of the approval queue, the suggestion is still PublicQueue with the
\* tally it had, and its public_message_id is NULL, so that get_from_message no
\* longer finds it by that message.
C16_WithdrawClearsHandle ==
    [][\A h \in VsHandlers :
         (vs[h].pc = "merge" /\ VsSteps(h) /\ ~VsEnds(h))
         => LET s == vs[h].emoji[vs'[h].k].suggestion
            IN  /\ StateOf(suggestions'[s]) = "PublicQueue"
                /\ suggestions'[s].upvotes = suggestions[s].upvotes
                /\ suggestions'[s].downvotes = suggestions[s].downvotes
                /\ suggestions'[s].public_message_id = NULL]_vars

\* C17. Comparison validation: a vs run whose list has fewer than 2 entries, more
\* than 6, or an entry twice is answered with that reason and never stages: only
\* lists of 2 to 6 distinct entries get past the checks, and the answered run
\* creates no temporary emoji, sends and deletes no message, changes no suggestion
\* and leaves vs_lock free.
C17_ComparisonValidation ==
    [][\A h \in VsHandlers :
         /\ (vs'[h].pc = "reply" /\ vs'[h].reply # "refused")
            => LET n == vs'[h].len
                   ids == Cardinality(vs'[h].id_set)
               IN  /\ n < 2 \/ n > 6 \/ ids < n
                   /\ n < 2 => vs'[h].reply = "too_few"
                   /\ n > 6 => vs'[h].reply = "too_many"
                   /\ (n >= 2 /\ n <= 6) => vs'[h].reply = "duplicate"
         /\ vs'[h].pc \notin {"idle", "reply"}
            => LET emoji == vs'[h].emoji
               IN  /\ Len(emoji) >= 2
                   /\ Len(emoji) <= 6
                   /\ \A i, j \in 1..Len(emoji) : emoji[i].id = emoji[j].id => i = j
         /\ ((vs[h].pc = "idle" \/ (vs[h].pc = "reply" /\ vs[h].reply # "refused"))
             /\ VsSteps(h))
            => /\ suggestions' = suggestions
               /\ messages' = messages
               /\ temp_emotes' = temp_emotes
               /\ vs_messages' = vs_messages
               /\ VsEnds(h) => /\ vs_lock' = FREE
                               /\ ended'.outcome \in {vs[h].reply, "HTTPException"}]_vars

\* C17 witness: a run given the same entry twice was answered, nothing was staged
\* or sent, and vs_lock is free.
C17_Witness ==
    /\ ended = [handler |-> "vs1", outcome |-> "duplicate"]
    /\ temp_emotes = {}
    /\ vs_messages = 0
    /\ vs_lock = FREE

\* C18. Resolution metadata: the UPDATE of move_to_public_queue or deny run for a
\* command (approve, deny, the revoke wizard) records the command's actor and
\* reason, the one run for the votes leaves forced_by and forced_reason unset, and
\* a Pending suggestion never has either.
C18_ResolutionMetadata ==
    [][/\ \A p \in Handlers :
            ((StepsFrom(p, "move_update") \/ StepsFrom(p, "deny_update"))
             /\ ended'.outcome # "PostgresError")
            => LET row == suggestions'[rec[p].idx]
               IN  /\ row.forced_by = ctx[p].who
                   /\ row.forced_reason = ctx[p].reason
                   /\ p \in Commands => row.forced_by # "NULL" /\ row.forced_reason # "NULL"
                   /\ p \in VoteHandlers => row.forced_by = "NULL" /\ row.forced_reason = "NULL"
       /\ \A s \in Subs :
            StateOf(suggestions'[s]) = "Pending"
            => /\ suggestions'[s].forced_by = "NULL"
               /\ suggestions'[s].forced_reason = "NULL"]_vars

\* C18 witness: a suggestion was approved by command and its row names the
\* council member and the reason.
C18_Witness ==
    \E s \in Subs :
        /\ StateOf(suggestions[s]) = "PublicQueue"
        /\ suggestions[s].forced_by = "council"
        /\ suggestions[s].forced_reason = "given"
        /\ ended = [handler |-> "approve", outcome |-> "ok"]

\* C19. Revoked flag: revoked is set only on a Denied suggestion, and only by a step
\* of the revoke wizard; no suggestion is PublicQueue (or Pending) with revoked set.
C19_RevokedImpliesDenied ==
    [][\A s \in Subs :
         /\ suggestions'[s].revoked => StateOf(suggestions'[s]) = "Denied"
         /\ (suggestions'[s].revoked /\ ~suggestions[s].revoked)
            => StepsFrom("revoke", "deny_revoke")]_vars


\* C20: Notification failure is tolerated.  A step of move_to_public_queue or deny
\* that ends with the notice to the submitter, delivered or not, returns normally
\* to its caller, and what it leaves of the submission is the same in both cases:
\* a promotion leaves the row its UPDATE wrote (state, tally, resolution metadata
\* and public message handle), a denial the row whose council message handle was
\* cleared; ledger, emoji and the count of published messages are untouched, and
\* no message appears.
C20_NotificationTolerated ==
    [][dm' \in {"sent", "failed"}
         => LET p == ended'.handler
                s == rec[p].idx
            IN  /\ p \in Handlers
                /\ ended'.outcome = "ok"
                /\ pc'[p] = "idle"
                /\ IF ctx[p].transition = "promote"
                   THEN /\ StepsFrom(p, "move_update")
                        /\ suggestions' =
                             [suggestions EXCEPT
                                ![s] = MoveToPublicQueueUpdate(@, ctx[p].msg, ctx[p].who,
                                                               ctx[p].reason)]
                        /\ messages' = messages
                   ELSE /\ StepsFrom(p, "council_delete")
                        /\ ctx[p].transition = "deny"
                        /\ ~ctx[p].revoke
                        /\ suggestions' =
                             [suggestions EXCEPT ![s].council_message_id = NULL]
                        /\ messages' \subseteq messages
                /\ UNCHANGED <<council_votes, emojis, published>>]_vars

\* A promotion has completed normally although its notice could not be delivered:
\* the submission is in the public queue with the actor recorded.
C20_Witness ==
    /\ dm = "failed"
    /\ ended = [handler |-> "approve", outcome |-> "ok"]
    /\ \E s \in Subs :
        /\ StateOf(suggestions[s]) = "PublicQueue"
        /\ suggestions[s].forced_by = "council"
        /\ suggestions[s].public_message_id # NULL


\* C21: Message-deletion failure is recovered locally.  When the deletion of the
\* council queue message or of the message in the suggestions channel fails
\* inside move_to_public_queue or deny, no error leaves the transition and the
\* transition goes on: a promotion to its UPDATE, a denial to its return.  So no
\* handler ends at that step with the submission still Pending.
C21_DeletionFailureRecovered ==
    [][\A p \in Handlers :
         StepsFrom(p, "council_delete")
           => /\ ended'.outcome \in {"none", "ok"}
              /\ ctx[p].transition = "promote" => pc'[p] = "move_update"
              /\ pc'[p] = "idle"
                 => StateOf(suggestions'[rec[p].idx]) # "Pending"]_vars


\* C22: NotFound on unknown message.  A vote event that ends with NotFound has
\* changed no row of suggestions (tally, state, handles), no ledger entry, no
\* message and no emoji, and leaves the voting lock free; and a vote event that
\* goes on to the tally holds the current row of a suggestion that has a council
\* or a public message id, so an id that matches no row is never tallied.
C22_NotFoundChangesNothing ==
    [][\A p \in VoteHandlers :
         StepsFrom(p, "voting_lock")
           => IF ended'.outcome = "NotFound"
              THEN /\ ended'.handler = p
                   /\ pc'[p] = "idle"
                   /\ voting_lock' = FREE
                   /\ UNCHANGED <<suggestions, council_votes, messages, emojis,
                                  published, pol>>
              ELSE /\ pc'[p] = "update_tally"
                   /\ rec'[p].idx \in Subs
                   /\ rec'[p].record = suggestions[rec'[p].idx]
                   /\ \/ rec'[p].record.council_message_id # NULL
                      \/ rec'[p].record.public_message_id # NULL]_vars

\* A vote event named a message that matches no row and ended with NotFound, with
\* the lock free, more events to come and the suggestion still Pending.
C22_Witness ==
    /\ ended = [handler |-> "reaction1", outcome |-> "NotFound"]
    /\ voting_lock = FREE
    /\ nruns < MaxRuns
    /\ \E s \in Subs : /\ StateOf(suggestions[s]) = "Pending"
                       /\ suggestions[s].council_message_id # NULL


\* Handlers p and q are both inside a transition on suggestion s, one promoting
\* and one denying.
Racing(p, q, s) ==
    /\ pc[p] # "idle" /\ pc[q] # "idle"
    /\ rec[p].idx = s /\ rec[q].idx = s
    /\ {ctx[p].transition, ctx[q].transition} = {"promote", "deny"}

\* C23: No transition race.  When a vote that crosses a threshold and a manual
\* approve or deny command act on the same Pending suggestion, one of the two
\* transitions is refused: no step taken while a vote handler and a command are
\* both inside opposite transitions on a suggestion leaves it with a message
\* published in the approval queue and a recorded denial.
C23_NoTransitionRace ==
    [][\A p \in VoteHandlers, q \in {"approve", "deny"}, s \in Subs :
         Racing(p, q, s)
           => ~(published'[s] > 0 /\ StateOf(suggestions'[s]) = "Denied")]_vars


\* Vote handler p is inside vote processing: past the lookup of the suggestion
\* and not yet out of process_vote.
InVoteProcessing(p) == pc[p] \notin {"idle", "voting_lock"}

\* C24: Vote serialization.  At most one vote event is inside vote processing, and
\* the handler that is there holds the voting lock at every step from the tally
\* update through the ledger write and the promote or deny the policy fires; so
\* while one vote handler is between its tally update and the end of its
\* transition, every other vote handler is idle or waiting for the lock.
C24_VoteSerialization ==
    /\ \A p, q \in VoteHandlers :
         (InVoteProcessing(p) /\ InVoteProcessing(q)) => p = q
    /\ \A p \in VoteHandlers : InVoteProcessing(p) => voting_lock = p
    /\ voting_lock # FREE
         => voting_lock \in VoteHandlers /\ InVoteProcessing(voting_lock)

\* One vote has fired a transition and is inside it, holding the lock, while a
\* second vote event waits for the lock.
C24_Witness ==
    /\ pc["reaction1"] \in {"queue_send", "emoji_delete", "council_delete",
                            "move_update"}
    /\ ctx["reaction1"].transition = "promote"
    /\ voting_lock = "reaction1"
    /\ pc["reaction2"] = "voting_lock"


\* Run h of vs is inside `async with self.vs_lock`.
InComparison(h) ==
    /\ vs[h].pc # "idle"
    /\ ~(vs[h].pc = "reply" /\ vs[h].reply = "refused")

\* C25: Comparison exclusivity.  At most one vs run is inside the workflow (checks,
\* staging, confirmation wait, publish and merge) and that run holds vs_lock; a
\* run invoked while the lock is held goes straight to its refusal, and neither
\* its invocation nor its answer changes a suggestion, a message, a temporary
\* emoji, the VS messages or the holder of the lock.
C25_ComparisonExclusive ==
    [][/\ \A h, g \in VsHandlers :
            (InComparison(h)' /\ InComparison(g)') => h = g
       /\ \A h \in VsHandlers : InComparison(h)' => vs_lock' = h
       /\ \A h \in VsHandlers :
            (vs[h].pc = "idle" /\ VsSteps(h) /\ vs_lock # FREE)
              => vs'[h].pc = "reply" /\ vs'[h].reply = "refused"
       /\ \A h \in VsHandlers :
            (/\ VsSteps(h)
             /\ \/ vs[h].pc = "idle" /\ vs_lock # FREE
                \/ vs[h].pc = "reply" /\ vs[h].reply = "refused")
              => UNCHANGED <<suggestions, council_votes, messages, temp_emotes,
                             vs_messages, vs_lock>>]_vars

\* One run waits for the operator's confirmation while a second run, invoked
\* meanwhile, is about to be told that it is refused.
C25_Witness ==
    /\ vs["vs1"].pc = "confirm"
    /\ vs_lock = "vs1"
    /\ vs["vs2"].pc = "reply"
    /\ vs["vs2"].reply = "refused"


\* C26: Final tally at retirement.  The line the merge loop of a confirmed vs run
\* writes for a suggestion, in the step that retires it, carries the upvotes and
\* downvotes the row of table suggestions holds at that step, whatever votes were
\* processed while the run was staged.
C26_FinalTallyAtRetirement ==
    [][\A h \in VsHandlers :
         (vs[h].pc = "merge" /\ VsSteps(h) /\ vs'[h].pc # "idle")
           => LET line == vs'[h].merge_list[Len(vs'[h].merge_list)]
              IN  /\ Len(vs'[h].merge_list) = Len(vs[h].merge_list) + 1
                  /\ line.upvotes = suggestions[line.idx].upvotes
                  /\ line.downvotes = suggestions[line.idx].downvotes]_vars


\* C27: Policy re-evaluation on every mutation.  On a Pending suggestion every
\* vote, cast or revoke, goes from the tally update on to the ledger write and
\* the policy, holding a record whose counters are those the table holds after
\* the update; and the policy fires what check_council_votes gives for the
\* counters of the table at that step: promote starts with reset_votes, deny is
\* entered (or fails on the missing emoji), anything else returns.  Under
\* thresholds 5 and 3 the revoke of a deny vote at tally (4,2) gives (4,1), which
\* fires promote.
C27_PolicyOnEveryMutation ==
    [][\A p \in VoteHandlers :
         LET s == rec[p].idx
             fired == check_council_votes(suggestions[s].upvotes,
                                          suggestions[s].downvotes,
                                          config.required_votes,
                                          config.required_difference)
             revoked42 == UpdateTally([NewRow(1) EXCEPT !.upvotes = 4, !.downvotes = 2],
                                      FALSE, "NAY")
         IN  /\ (StepsFrom(p, "update_tally") /\ StateOf(Row(p)) = "Pending")
                  => /\ pc'[p] = "upsert_vote"
                     /\ rec'[p].record.upvotes = suggestions'[s].upvotes
                     /\ rec'[p].record.downvotes = suggestions'[s].downvotes
                     /\ Counter(suggestions'[s], ctx[p].approval)
                          = Counter(suggestions[s], ctx[p].approval)
                              + (IF ctx[p].vote_type = "YAY" THEN 1 ELSE -1)
             /\ (StepsFrom(p, "upsert_vote") /\ StateOf(Row(p)) = "Pending")
                  => /\ fired = "promote"
                          => pc'[p] = "reset_votes" /\ ctx'[p].transition = "promote"
                     /\ fired = "deny"
                          => \/ pc'[p] = "deny_update" /\ ctx'[p].transition = "deny"
                             \/ ended' = [handler |-> p, outcome |-> "RuntimeError"]
                     /\ fired = "none"
                          => ended' = [handler |-> p, outcome |-> "ok"]
             /\ <<revoked42.upvotes, revoked42.downvotes>> = <<4, 1>>
             /\ check_council_votes(revoked42.upvotes, revoked42.downvotes, 5, 3)
                  = "promote"]_vars

\* The revoke of a deny vote moved the tally of a Pending suggestion from (2,1) to
\* (2,0) and the policy fired promote on it.
C27_Witness ==
    \E p \in VoteHandlers :
        /\ pc[p] = "reset_votes"
        /\ ctx[p].vote_type = "NAY"
        /\ ~ctx[p].approval
        /\ ctx[p].transition = "promote"
        /\ suggestions[rec[p].idx].upvotes = 2
        /\ suggestions[rec[p].idx].downvotes = 0
        /\ StateOf(suggestions[rec[p].idx]) = "Pending"


\* C28: Lock independence.  Whoever holds vs_lock, a vote event that waits for the
\* voting lock can take it as soon as it is free, and a vote handler that holds
\* it can take its next step; no step of a vote handler touches vs_lock or a vs
\* run, and no step of a vs run touches the voting lock or a vote handler.
C28_LockIndependence ==
    [][/\ \A p \in {"reaction1"} :
            /\ (pc[p] = "voting_lock" /\ voting_lock = FREE)
                 => ENABLED AcquireVotingLock(p, {"alice"})
            /\ pc[p] = "update_tally" => ENABLED ProcessVoteTally(p)
       /\ (pc' # pc \/ voting_lock' # voting_lock) => UNCHANGED <<vs, vs_lock>>
       /\ (vs' # vs \/ vs_lock' # vs_lock) => UNCHANGED <<pc, rec, ctx, voting_lock>>]_vars

\* A vote on a suggestion of the list has just been processed to its end while a vs
\* run holds vs_lock and waits for the operator's confirmation.
C28_Witness ==
    /\ \E h \in VsHandlers : vs[h].pc = "confirm" /\ vs_lock = h
    /\ ended = [handler |-> "reaction1", outcome |-> "ok"]
    /\ voting_lock = FREE
    /\ \E s \in Subs : suggestions[s].upvotes + suggestions[s].downvotes # 0


\* C29: Locks are always released.  A lock that is held is held by a handler that
\* is running inside its `async with` block (the voting lock by a vote handler
\* past its lookup, vs_lock by a vs run past its test of the lock), so every way
\* out of the block, return or exception, has released it; and a lock that is
\* held is free again later, so neither lock is kept for ever and the two never
\* wait for each other.
C29_LocksReleased ==
    /\ [](voting_lock # FREE
            => voting_lock \in VoteHandlers /\ InVoteProcessing(voting_lock))
    /\ [](vs_lock # FREE => vs_lock \in VsHandlers /\ InComparison(vs_lock))
    /\ (voting_lock # FREE) ~> (voting_lock = FREE)
    /\ (vs_lock # FREE) ~> (vs_lock = FREE)

\* A vs run has just left its block on an exception raised while it staged, with
\* temporary emoji created and vs_lock free again, while a vote handler holds the
\* voting lock inside the transition its vote fired.
C29_Witness ==
    /\ ended.handler \in VsHandlers
    /\ ended.outcome = "HTTPException"
    /\ vs_lock = FREE
    /\ TempEmotesOf(ended.handler, temp_emotes) # {}
    /\ voting_lock = "reaction1"
    /\ ctx["reaction1"].transition # "none"


\* C30: Public handle tracks state.  A suggestion has a public message id only
\* when it is in the public queue: a Pending suggestion has none (so the test of
\* process_vote on public_message_id tells whether the suggestion has left
\* Pending) and a Denied suggestion has none.
C30_PublicHandleTracksState ==
    \A s \in Subs :
        /\ suggestions[s].public_message_id # NULL
             => StateOf(suggestions[s]) = "PublicQueue"
        /\ StateOf(suggestions[s]) # "Pending"
             => (StateOf(suggestions[s]) = "PublicQueue"
                   <=> suggestions[s].public_message_id # NULL)


\* C31: Single publication.  Whatever votes and approve commands act on a
\* suggestion, and however they overlap, at most one message is ever sent to the
\* approval queue for it.  Checked on the case the publications are furthest
\* apart: once the row of a suggestion says it is in the approval queue, with its
\* public message recorded, no step sends another message for it.
C31_SinglePublication ==
    [][\A s \in Subs :
         (StateOf(suggestions[s]) = "PublicQueue" /\ published[s] >= 1)
           => published'[s] = published[s]]_vars


\* The two tests of check_council_votes on the tally and the thresholds in `pol`
\* and `config`, and the test on the number of votes before them.
PromoteCondition == pol.upvotes - pol.downvotes >= config.required_difference
DenyCondition == pol.downvotes - pol.upvotes >= config.required_difference
EnoughVotes == pol.upvotes + pol.downvotes >= config.required_votes

\* C32: At most one transition per vote.  An evaluation of the policy fires
\* promote, deny or nothing: promote only with enough votes and the promote
\* condition, deny only with enough votes, the deny condition and not the promote
\* condition.  With required_difference >= 1 the two conditions never hold
\* together; when they do hold together, with enough votes, promote fires.
C32_OneTransitionPerVote ==
    /\ config.required_difference >= 1 => ~(PromoteCondition /\ DenyCondition)
    /\ pol.fired # "unevaluated"
         => /\ pol.fired \in {"none", "promote", "deny"}
            /\ pol.fired = "promote" <=> (EnoughVotes /\ PromoteCondition)
            /\ pol.fired = "deny"
                 <=> (EnoughVotes /\ DenyCondition /\ ~PromoteCondition)
            /\ (EnoughVotes /\ PromoteCondition /\ DenyCondition)
                 => pol.fired = "promote"

\* Tally (1,1) under required_votes 2 and required_difference 0 meets both
\* conditions, and the evaluation fired promote.
C32_Witness ==
    /\ pol = [upvotes |-> 1, downvotes |-> 1, fired |-> "promote"]
    /\ config = [required_votes |-> 2, required_difference |-> 0]
    /\ PromoteCondition /\ DenyCondition


\* C33: Directions are independent.  The tally UPDATE of a vote moves the counter
\* of the vote's direction by one and leaves the other counter, every other
\* column and every other row as they are; the ledger write of a vote sets the
\* marker of the vote's direction in the reviewer's entry for the suggestion and
\* leaves the other marker and every other entry as they are.
C33_DirectionsIndependent ==
    [][\A p \in VoteHandlers :
         LET s == rec[p].idx
             u == ctx[p].user_id
             delta == IF ctx[p].vote_type = "YAY" THEN 1 ELSE -1
             v == IF ctx[p].vote_type = "YAY" THEN "TRUE" ELSE "FALSE"
         IN  /\ StepsFrom(p, "update_tally")
                  => /\ suggestions' =
                          [suggestions EXCEPT
                             ![s] = IF ctx[p].approval
                                    THEN [@ EXCEPT !.upvotes = @ + delta]
                                    ELSE [@ EXCEPT !.downvotes = @ + delta]]
                     /\ council_votes' = council_votes
             /\ StepsFrom(p, "upsert_vote")
                  => /\ council_votes'[s][u].has_approved
                          = IF ctx[p].approval THEN v
                            ELSE council_votes[s][u].has_approved
                     /\ council_votes'[s][u].has_denied
                          = IF ctx[p].approval THEN council_votes[s][u].has_denied
                            ELSE v
                     /\ \A t \in Subs, w \in Reviewers :
                          <<t, w>> # <<s, u>>
                            => council_votes'[t][w] = council_votes[t][w]
                     /\ suggestions' = suggestions]_vars

\* One reviewer holds a standing approve and a standing deny on a Pending
\* suggestion, no vote is in progress, and the tally counts both.
C33_Witness ==
    /\ \A p \in VoteHandlers : pc[p] = "idle"
    /\ \E s \in Subs, u \in Reviewers :
         /\ StateOf(suggestions[s]) = "Pending"
         /\ council_votes[s][u].has_approved = "TRUE"
         /\ council_votes[s][u].has_denied = "TRUE"
         /\ \A w \in Reviewers \ {u} : council_votes[s][w].rows = 0
         /\ suggestions[s].upvotes = 1
         /\ suggestions[s].downvotes = 1

=============================================================================
